---- MODULE Spec2Model ----
(***************************************************************************)
(* request_collapse_with_progress (the cancelable singleflight cache of    *)
(* backend/request_collapse.py), ProgressBroadcaster and the SSE           *)
(* event_stream of backend/api.py, as given by the Python listings of      *)
(* sse-endpoints-specification.md, request_collapse_review.md and          *)
(* test-integration.sh.                                                    *)
(*                                                                         *)
(* One request = one thread t: event_stream creates the task, the task     *)
(* calls the decorated function (submit).  The thread that installs a      *)
(* cache entry also runs func for it, so a cache entry is identified by    *)
(* the thread that created it (Python object identity of the entry dict).  *)
(* Every `with _cache_lock:` block is one atomic action; event.wait()      *)
(* releases the lock and is a separate action.                             *)
(*                                                                         *)
(* The frontend's SSEManager (frontend/sseUtils.js) is modelled by `sse`:  *)
(* the object #eventSourceByEndpoint with its keys in insertion order, and *)
(* the EventSources it has created, each open or closed.                   *)
(***************************************************************************)
EXTENDS Integers, Sequences, FiniteSets, TLC

\* ---- bounds ----
NThreads == 3        \* requests of the specification with the SSE gateway
NCallers == 3        \* calls of the cache-only specification
NDeepCallers == 5    \* calls of the cache-only specification for the long scenarios
NKeys == 2
MaxReports == 1      \* progress reports of one worker
NObservers == 2      \* requests of the specification of one stream's delivery
MaxStreamReports == 2   \* progress reports of one worker in that specification
NListeners == 3      \* callbacks of the stand-alone ProgressBroadcaster
MaxEventSources == 3 \* EventSources the frontend's SSEManager creates
progressQueueCapacity == 1   \* the bound a bounded progress queue would have

Max(a, b) == IF a > b THEN a ELSE b
Slots == 1..Max(Max(NThreads, NObservers), Max(NCallers, NDeepCallers))
Threads == 1..NThreads
Callers == 1..NCallers
DeepCallers == 1..NDeepCallers
Observers == 1..NObservers
Listeners == 1..NListeners
Keys == 1..NKeys

\* ---- values ----
None == 0
TypeError == 100
InterruptedError == 101
PctCached == 100

VARIABLES
  current_cache_key,      \* _current_cache_key: None or a key
  current_cache_entry,    \* _current_cache_entry: None or the entry (its creator)
  current_cancel_event,   \* _current_cancel_event: None or the entry owning it
  status,                 \* entry -> "none" | "loading" | "complete" | "error"
  result,                 \* entry["result"]
  error,                  \* entry["error"]
  callbacks,              \* entry["progress_broadcaster"].callbacks
  cancel_event,           \* entries whose entry["cancel_event"] is set
  event,                  \* entries whose entry["event"] is set
  pc,                     \* position of each request's task
  cache_key,              \* local cache_key of the call
  waiting_for_entry,      \* local waiting_for_entry of a joined call
  old_event,              \* local old_event of an installing call
  exc,                    \* exception being handled by the call
  outcome,                \* how the call ended: "result" | "cancelled" | "error"
  outval,                 \* the returned result or the raised error
  reported,               \* number of progress reports made by the worker
  progress_queue,         \* event_stream: progress_queue
  client_disconnected,    \* event_stream: client_disconnected
  stream,                 \* SSE records yielded by event_stream
  gw,                     \* event_stream: "open" | "closed"
  replaced,               \* history: entries replaced by a later install
  last_key,               \* history: cache_key of the latest call
  stale,                  \* history: per call, the cancelled entries of its key at call time
  query,                  \* the query parameters of each request
  bc,                     \* a stand-alone ProgressBroadcaster and the record of its last broadcast
  sse                     \* the frontend's SSEManager and its EventSources

vars == <<current_cache_key, current_cache_entry, current_cancel_event,
          status, result, error, callbacks, cancel_event, event,
          pc, cache_key, waiting_for_entry, old_event, exc, outcome, outval,
          reported, progress_queue, client_disconnected, stream, gw,
          replaced, last_key, stale, query, bc, sse>>

cacheVars == <<current_cache_key, current_cache_entry, current_cancel_event>>
entryVars == <<status, result, error, callbacks, cancel_event, event>>
gwVars == <<progress_queue, client_disconnected, stream, gw>>
histVars == <<replaced, last_key, stale>>
reqVars == <<query, bc, sse>>

\* a request that has not arrived has no query parameters
NoQuery == [prefixes |-> {}, value |-> ""]

\* ProgressBroadcaster(): no callbacks; nothing broadcast yet
NewBroadcaster ==
  [callbacks |-> <<>>, invoked |-> <<>>, failed |-> {}, removed |-> {},
   escaped |-> FALSE, added |-> {}, lock |-> "free"]

\* the endpoints the frontend streams from, as their path segments
Endpoints ==
  {<<"api", "visualize", "WindTurbine", "stream">>,
   <<"api", "visualize", "BladeTemplate", "stream">>,
   <<"api", "getcncoverview", "stream">>,
   <<"api", "getdimensiontables", "stream">>}

EventSources == 1..MaxEventSources

\* new SSEManager(): #eventSourceByEndpoint = {}; no EventSource exists
NewSSEManager ==
  [keys |-> <<>>,
   eventSourceByEndpoint |-> [endpoint \in Endpoints |-> None],
   url |-> [es \in EventSources |-> <<>>],
   readyState |-> [es \in EventSources |-> "none"],
   op |-> "new", target |-> None]

Event(type, src, pct) == [type |-> type, src |-> src, pct |-> pct]

Init ==
  /\ current_cache_key = None
  /\ current_cache_entry = None
  /\ current_cancel_event = None
  /\ status = [e \in Slots |-> "none"]
  /\ result = [e \in Slots |-> None]
  /\ error = [e \in Slots |-> None]
  /\ callbacks = [e \in Slots |-> {}]
  /\ cancel_event = {}
  /\ event = {}
  /\ pc = [t \in Slots |-> "idle"]
  /\ cache_key = [t \in Slots |-> None]
  /\ waiting_for_entry = [t \in Slots |-> None]
  /\ old_event = [t \in Slots |-> None]
  /\ exc = [t \in Slots |-> None]
  /\ outcome = [t \in Slots |-> "pending"]
  /\ outval = [t \in Slots |-> None]
  /\ reported = [t \in Slots |-> 0]
  /\ progress_queue = [t \in Slots |-> <<>>]
  /\ client_disconnected = [t \in Slots |-> FALSE]
  /\ stream = [t \in Slots |-> <<>>]
  /\ gw = [t \in Slots |-> "open"]
  /\ replaced = {}
  /\ last_key = None
  /\ stale = [t \in Slots |-> {}]
  /\ query = [t \in Slots |-> NoQuery]
  /\ bc = NewBroadcaster
  /\ sse = NewSSEManager

\* progress_callback of event_stream: drop when disconnected, else enqueue
progress_callback(q, u, ev) ==
  IF client_disconnected[u] THEN q[u] ELSE Append(q[u], ev)

\* ProgressBroadcaster.broadcast: every registered callback gets the pair
broadcast(q, cbs, ev) ==
  [u \in Slots |-> IF u \in cbs THEN progress_callback(q, u, ev) ELSE q[u]]

\* ProgressBroadcaster.add_callback
add_callback(cbs, cb) == cbs \cup {cb}

Finish(t, kind, val) ==
  /\ pc' = [pc EXCEPT ![t] = "done"]
  /\ outcome' = [outcome EXCEPT ![t] = kind]
  /\ outval' = [outval EXCEPT ![t] = val]

\* same key, status complete: courtesy progress under the lock, cached result
CacheHit(t, e) ==
  /\ progress_queue' = [progress_queue EXCEPT
        ![t] = progress_callback(progress_queue, t, Event("progress", None, PctCached))]
  /\ Finish(t, "result", result[e])
  /\ UNCHANGED <<cacheVars, entryVars, waiting_for_entry, old_event, replaced>>

\* same key, status error: re-raise the cached error
CachedError(t, e) ==
  /\ Finish(t, "error", error[e])
  /\ UNCHANGED <<cacheVars, entryVars, waiting_for_entry, old_event, replaced,
                 progress_queue>>

\* JoinExisting that forgets to add the progress callback to the broadcaster
JoinExisting_NoAdd(t, e) ==
  /\ callbacks' = callbacks
  /\ waiting_for_entry' = [waiting_for_entry EXCEPT ![t] = e]
  /\ pc' = [pc EXCEPT ![t] = "waiting"]
  /\ UNCHANGED <<cacheVars, status, result, error, cancel_event, event,
                 old_event, outcome, outval, replaced, progress_queue>>

\* same key, status loading: add the callback and park on entry["event"]
JoinExisting(t, e) ==
  /\ callbacks' = [callbacks EXCEPT ![e] = add_callback(callbacks[e], t)]
  /\ waiting_for_entry' = [waiting_for_entry EXCEPT ![t] = e]
  /\ pc' = [pc EXCEPT ![t] = "waiting"]
  /\ UNCHANGED <<cacheVars, status, result, error, cancel_event, event,
                 old_event, outcome, outval, replaced, progress_queue>>

\* CreateEntry that forgets `_current_cancel_event.set()`
CreateEntry_NoCancel(t, k) ==
  /\ cancel_event' = cancel_event
  /\ old_event' = [old_event EXCEPT ![t] = current_cache_entry]
  /\ current_cancel_event' = t
  /\ current_cache_key' = k
  /\ current_cache_entry' = t
  /\ status' = [status EXCEPT ![t] = "loading"]
  /\ result' = [result EXCEPT ![t] = None]
  /\ callbacks' = [callbacks EXCEPT ![t] = add_callback({}, t)]
  /\ replaced' = IF current_cache_entry # None
                 THEN replaced \cup {current_cache_entry} ELSE replaced
  /\ pc' = [pc EXCEPT ![t] = IF current_cache_entry # None
                             THEN "set_old" ELSE "running"]
  /\ UNCHANGED <<error, event, waiting_for_entry, outcome, outval, progress_queue>>

\* CreateEntry that installs the entry but leaves `_current_cache_key` as it was
CreateEntry_StaleKey(t, k) ==
  /\ cancel_event' = IF current_cancel_event # None
                     THEN cancel_event \cup {current_cancel_event}
                     ELSE cancel_event
  /\ old_event' = [old_event EXCEPT ![t] = current_cache_entry]
  /\ current_cancel_event' = t
  /\ current_cache_key' = current_cache_key
  /\ current_cache_entry' = t
  /\ status' = [status EXCEPT ![t] = "loading"]
  /\ result' = [result EXCEPT ![t] = None]
  /\ callbacks' = [callbacks EXCEPT ![t] = add_callback({}, t)]
  /\ replaced' = IF current_cache_entry # None
                 THEN replaced \cup {current_cache_entry} ELSE replaced
  /\ pc' = [pc EXCEPT ![t] = IF current_cache_entry # None
                             THEN "set_old" ELSE "running"]
  /\ UNCHANGED <<error, event, waiting_for_entry, outcome, outval, progress_queue>>

\* CreateEntry that hands the old entry's Event, cleared, to the new entry
CreateEntry_ClearsEvent(t, k) ==
  /\ cancel_event' = IF current_cancel_event # None
                     THEN cancel_event \cup {current_cancel_event}
                     ELSE cancel_event
  /\ old_event' = [old_event EXCEPT ![t] = current_cache_entry]
  /\ current_cancel_event' = t
  /\ current_cache_key' = k
  /\ current_cache_entry' = t
  /\ status' = [status EXCEPT ![t] = "loading"]
  /\ result' = [result EXCEPT ![t] = None]
  /\ callbacks' = [callbacks EXCEPT ![t] = add_callback({}, t)]
  /\ replaced' = IF current_cache_entry # None
                 THEN replaced \cup {current_cache_entry} ELSE replaced
  /\ pc' = [pc EXCEPT ![t] = IF current_cache_entry # None
                             THEN "set_old" ELSE "running"]
  /\ event' = event \ {current_cache_entry}
  /\ UNCHANGED <<error, waiting_for_entry, outcome, outval, progress_queue>>

\* different key: cancel the old operation and create the new cache entry
CreateEntry(t, k) ==
  /\ cancel_event' = IF current_cancel_event # None
                     THEN cancel_event \cup {current_cancel_event}
                     ELSE cancel_event
  /\ old_event' = [old_event EXCEPT ![t] = current_cache_entry]
  /\ current_cancel_event' = t
  /\ current_cache_key' = k
  /\ current_cache_entry' = t
  /\ status' = [status EXCEPT ![t] = "loading"]
  /\ result' = [result EXCEPT ![t] = None]
  /\ callbacks' = [callbacks EXCEPT ![t] = add_callback({}, t)]
  /\ replaced' = IF current_cache_entry # None
                 THEN replaced \cup {current_cache_entry} ELSE replaced
  /\ pc' = [pc EXCEPT ![t] = IF current_cache_entry # None
                             THEN "set_old" ELSE "running"]
  /\ UNCHANGED <<error, event, waiting_for_entry, outcome, outval, progress_queue>>

\* wrapper, first `with _cache_lock:` block
Submit(t, k) ==
  /\ pc[t] = "idle"
  /\ \A u \in Slots : u < t => pc[u] # "idle"   \* calls are numbered in order of arrival
  /\ t = 1 => k = 1                              \* keys are interchangeable
  /\ cache_key' = [cache_key EXCEPT ![t] = k]
  /\ last_key' = k
  /\ stale' = [stale EXCEPT ![t] =
                 {e \in cancel_event : cache_key[e] = k}]
  /\ IF current_cache_key = k /\ current_cache_entry # None
     THEN LET e == current_cache_entry IN
          CASE status[e] = "complete" -> CacheHit(t, e)
            [] status[e] = "error" -> CachedError(t, e)
            [] OTHER -> JoinExisting(t, e)
     ELSE CreateEntry(t, k)
  /\ UNCHANGED <<exc, reported, client_disconnected, stream, gw>>

\* SetOldEvent that sets the event of the entry that is current now, the old
\* event not having been saved before the swap
SetOldEvent_FiresCurrent(t) ==
  /\ pc[t] = "set_old"
  /\ event' = IF current_cache_entry # None
              THEN event \cup {current_cache_entry} ELSE event
  /\ pc' = [pc EXCEPT ![t] = "running"]
  /\ UNCHANGED <<cacheVars, status, result, error, callbacks, cancel_event,
                 cache_key, waiting_for_entry, old_event, exc, outcome, outval,
                 reported, gwVars, histVars, reqVars>>

\* old_event.set() after the lock is released, then func is called
SetOldEvent(t) ==
  /\ pc[t] = "set_old"
  /\ event' = event \cup {old_event[t]}
  /\ pc' = [pc EXCEPT ![t] = "running"]
  /\ UNCHANGED <<cacheVars, status, result, error, callbacks, cancel_event,
                 cache_key, waiting_for_entry, old_event, exc, outcome, outval,
                 reported, gwVars, histVars, reqVars>>

\* WakeUp without the replacement check (the wait of the first listing)
WakeUp_NoCheck(t) ==
  /\ pc[t] = "waiting"
  /\ waiting_for_entry[t] \in event
  /\ IF current_cache_entry = None
     THEN Finish(t, "error", TypeError)
     ELSE IF status[current_cache_entry] = "error"
          THEN Finish(t, "error", error[current_cache_entry])
          ELSE Finish(t, "result", result[current_cache_entry])
  /\ UNCHANGED <<cacheVars, entryVars, cache_key, waiting_for_entry, old_event,
                 exc, reported, gwVars, histVars, reqVars>>

\* event.wait() returned; lock re-acquired; replacement check
WakeUp(t) ==
  /\ pc[t] = "waiting"
  /\ waiting_for_entry[t] \in event
  /\ IF current_cache_entry # waiting_for_entry[t]
     THEN Finish(t, "cancelled", None)
     ELSE IF status[current_cache_entry] = "error"
          THEN Finish(t, "error", error[current_cache_entry])
          ELSE Finish(t, "result", result[current_cache_entry])
  /\ UNCHANGED <<cacheVars, entryVars, cache_key, waiting_for_entry, old_event,
                 exc, reported, gwVars, histVars, reqVars>>

\* broadcast_progress_wrapper, called by func; the n-th report of a worker
\* carries n as its percent (func reports non-decreasing percents)
ReportUpTo(t, n) ==
  /\ pc[t] = "running"
  /\ reported[t] < n
  /\ reported' = [reported EXCEPT ![t] = @ + 1]
  /\ progress_queue' =
       IF current_cache_entry # None
       THEN broadcast(progress_queue, callbacks[current_cache_entry],
                      Event("progress", t, reported[t] + 1))
       ELSE progress_queue
  /\ UNCHANGED <<cacheVars, entryVars, pc, cache_key, waiting_for_entry,
                 old_event, exc, outcome, outval, client_disconnected, stream,
                 gw, histVars, reqVars>>

Report(t) == ReportUpTo(t, MaxReports)

\* func returned: status/result are written to _current_cache_entry
FuncReturns(t) ==
  /\ pc[t] = "running"
  /\ IF current_cache_entry = None
     THEN /\ exc' = [exc EXCEPT ![t] = TypeError]
          /\ pc' = [pc EXCEPT ![t] = "except"]
          /\ UNCHANGED <<status, result>>
     ELSE /\ status' = [status EXCEPT ![current_cache_entry] = "complete"]
          /\ result' = [result EXCEPT ![current_cache_entry] = t]
          /\ pc' = [pc EXCEPT ![t] = "set_event"]
          /\ UNCHANGED exc
  /\ UNCHANGED <<cacheVars, error, callbacks, cancel_event, event, cache_key,
                 waiting_for_entry, old_event, outcome, outval, reported,
                 gwVars, histVars, reqVars>>

\* _current_cache_entry["event"].set(); return result
SetEvent(t) ==
  /\ pc[t] = "set_event"
  /\ IF current_cache_entry = None
     THEN /\ exc' = [exc EXCEPT ![t] = TypeError]
          /\ pc' = [pc EXCEPT ![t] = "except"]
          /\ UNCHANGED <<event, outcome, outval>>
     ELSE /\ event' = event \cup {current_cache_entry}
          /\ Finish(t, "result", t)
          /\ UNCHANGED exc
  /\ UNCHANGED <<cacheVars, status, result, error, callbacks, cancel_event,
                 cache_key, waiting_for_entry, old_event, reported, gwVars,
                 histVars, reqVars>>

\* ExceptBlock without the "is it still our entry" test (the first listing)
ExceptBlock_Unguarded(t, e) ==
  /\ IF current_cache_entry # None
     THEN IF e = InterruptedError
          THEN /\ current_cache_key' = None
               /\ current_cache_entry' = None
               /\ UNCHANGED <<status, error>>
          ELSE /\ status' = [status EXCEPT ![current_cache_entry] = "error"]
               /\ error' = [error EXCEPT ![current_cache_entry] = e]
               /\ UNCHANGED <<current_cache_key, current_cache_entry>>
     ELSE UNCHANGED <<current_cache_key, current_cache_entry, status, error>>
  /\ pc' = [pc EXCEPT ![t] = "set_own"]
  /\ UNCHANGED <<current_cancel_event, result, callbacks, cancel_event, event,
                 cache_key, waiting_for_entry, old_event, outcome, outval,
                 reported, gwVars, histVars, reqVars>>

\* except Exception as e: the `with _cache_lock:` block of the handler
ExceptBlock(t, e) ==
  /\ IF current_cache_key = cache_key[t] /\ current_cache_entry # None
     THEN IF e = InterruptedError
          THEN /\ current_cache_key' = None
               /\ current_cache_entry' = None
               /\ UNCHANGED <<status, error>>
          ELSE /\ status' = [status EXCEPT ![current_cache_entry] = "error"]
               /\ error' = [error EXCEPT ![current_cache_entry] = e]
               /\ UNCHANGED <<current_cache_key, current_cache_entry>>
     ELSE UNCHANGED <<current_cache_key, current_cache_entry, status, error>>
  /\ pc' = [pc EXCEPT ![t] = "set_own"]
  /\ UNCHANGED <<current_cancel_event, result, callbacks, cancel_event, event,
                 cache_key, waiting_for_entry, old_event, outcome, outval,
                 reported, gwVars, histVars, reqVars>>

\* func raised InterruptedError (it polls cancel_event) or another exception
FuncRaises(t) ==
  /\ pc[t] = "running"
  /\ \/ /\ t \in cancel_event
        /\ exc' = [exc EXCEPT ![t] = InterruptedError]
        /\ ExceptBlock(t, InterruptedError)
     \/ /\ exc' = [exc EXCEPT ![t] = t]
        /\ ExceptBlock(t, t)

\* a TypeError raised inside the try block reaches the same handler
HandleTypeError(t) ==
  /\ pc[t] = "except"
  /\ UNCHANGED exc
  /\ ExceptBlock(t, exc[t])

\* event.set(); raise
SetOwnEvent(t) ==
  /\ pc[t] = "set_own"
  /\ event' = event \cup {t}
  /\ IF exc[t] = InterruptedError
     THEN Finish(t, "cancelled", None)
     ELSE Finish(t, "error", exc[t])
  /\ exc' = [exc EXCEPT ![t] = None]
  /\ UNCHANGED <<cacheVars, status, result, error, callbacks, cancel_event,
                 cache_key, waiting_for_entry, old_event, reported, gwVars,
                 histVars, reqVars>>

\* event_stream loop: task not done, client connected, one queued record is written
StreamProgress(t) ==
  /\ gw[t] = "open"
  /\ pc[t] \notin {"idle", "done"}
  /\ progress_queue[t] # <<>>
  /\ stream' = [stream EXCEPT ![t] = Append(@, Head(progress_queue[t]))]
  /\ progress_queue' = [progress_queue EXCEPT ![t] = Tail(@)]
  /\ UNCHANGED <<cacheVars, entryVars, pc, cache_key, waiting_for_entry,
                 old_event, exc, outcome, outval, reported, client_disconnected,
                 gw, histVars, reqVars>>

\* ClientDisconnect that also signals the cancel event of the current operation
ClientDisconnect_Cancels(t) ==
  /\ gw[t] = "open"
  /\ pc[t] \notin {"idle", "done"}
  /\ client_disconnected' = [client_disconnected EXCEPT ![t] = TRUE]
  /\ gw' = [gw EXCEPT ![t] = "closed"]
  /\ cancel_event' = IF current_cancel_event # None
                     THEN cancel_event \cup {current_cancel_event}
                     ELSE cancel_event
  /\ UNCHANGED <<cacheVars, status, result, error, callbacks, event, pc,
                 cache_key, waiting_for_entry, old_event, exc, outcome, outval,
                 reported, progress_queue, stream, histVars, reqVars>>

\* event_stream loop: request.is_disconnected() -> task.cancel(); return
ClientDisconnect(t) ==
  /\ gw[t] = "open"
  /\ pc[t] \notin {"idle", "done"}
  /\ client_disconnected' = [client_disconnected EXCEPT ![t] = TRUE]
  /\ gw' = [gw EXCEPT ![t] = "closed"]
  /\ UNCHANGED <<cacheVars, entryVars, pc, cache_key, waiting_for_entry,
                 old_event, exc, outcome, outval, reported, progress_queue,
                 stream, histVars, reqVars>>

\* the terminal record for the outcome of the task: complete for a result,
\* cancelled for None or InterruptedError, error for any other exception
\* (`except Exception as e` of the endpoint listing)
Terminal(t) ==
  CASE outcome[t] = "result" /\ outval[t] # None -> Event("complete", outval[t], None)
    [] outcome[t] = "result" /\ outval[t] = None -> Event("cancelled", None, None)
    [] outcome[t] = "cancelled" -> Event("cancelled", None, None)
    [] OTHER -> Event("error", outval[t], None)

\* event_stream after the loop: task.done(); result = await task; terminal record
StreamTerminal(t) ==
  /\ gw[t] = "open"
  /\ pc[t] = "done"
  /\ stream' = [stream EXCEPT ![t] = Append(@, Terminal(t))]
  /\ gw' = [gw EXCEPT ![t] = "closed"]
  /\ UNCHANGED <<cacheVars, entryVars, pc, cache_key, waiting_for_entry,
                 old_event, exc, outcome, outval, reported, progress_queue,
                 client_disconnected, histVars, reqVars>>

\* a call of the decorated function with the parameters of key k
Call(t, k) ==
  /\ Submit(t, k)
  /\ UNCHANGED reqVars

\* the steps of the calls in S: the decorated function
CacheNext(S) ==
  \/ \E t \in S, k \in Keys : Call(t, k)
  \/ \E t \in S : SetOldEvent(t)
  \/ \E t \in S : WakeUp(t)
  \/ \E t \in S : FuncReturns(t)
  \/ \E t \in S : SetEvent(t)
  \/ \E t \in S : FuncRaises(t)
  \/ \E t \in S : HandleTypeError(t)
  \/ \E t \in S : SetOwnEvent(t)

\* the steps of a call after its first lock block
CallStep(S) ==
  \/ \E t \in S : SetOldEvent(t)
  \/ \E t \in S : WakeUp(t)
  \/ \E t \in S : FuncReturns(t)
  \/ \E t \in S : SetEvent(t)
  \/ \E t \in S : FuncRaises(t)
  \/ \E t \in S : HandleTypeError(t)
  \/ \E t \in S : SetOwnEvent(t)

Next ==
  \/ CacheNext(Threads)
  \/ \E t \in Threads : Report(t)
  \/ \E t \in Threads : StreamProgress(t)
  \/ \E t \in Threads : ClientDisconnect(t)
  \/ \E t \in Threads : StreamTerminal(t)

NextCache == CacheNext(Callers)
NextDeep == CacheNext(DeepCallers)

\* ---- the request handler: query parameters ----

\* the parameter groups hash_parameters takes
Prefixes == {"magnafpm", "furling", "user"}

\* query strings: one dotted key per prefix, all with the same raw value; the
\* three groups, with or without a key of another prefix; "1" is a number,
\* "x" is not and stays a string
Queries ==
  {[prefixes |-> Prefixes \cup extra, value |-> v] :
     extra \in {{}, {"other"}}, v \in {"1", "x"}}

\* convert_query_param_type: bool, else int, else float, else the string itself
convert_query_param_type(value) ==
  CASE value \in {"true", "false"} -> [type |-> "bool", text |-> value]
    [] value \in {"1", "2"} -> [type |-> "int", text |-> value]
    [] value \in {"1.0"} -> [type |-> "float", text |-> value]
    [] OTHER -> [type |-> "str", text |-> value]

\* parse_prefixed_parameters: one group per prefix found, whatever the prefix
parse_prefixed_parameters(query_params) ==
  [prefix \in query_params.prefixes |->
     convert_query_param_type(query_params.value)]

\* hash_parameters: the key of the three groups (the groups carry one value)
hash_parameters(magnafpm_parameters, furling_parameters, user_parameters) ==
  IF magnafpm_parameters.type = "int" THEN 1 ELSE 2

\* the endpoint: parse the query, start the task, which calls the wrapper
Request(t, q) ==
  /\ LET parameters == parse_prefixed_parameters(q) IN
       Submit(t, hash_parameters(parameters["magnafpm"], parameters["furling"],
                                 parameters["user"]))
  /\ query' = [query EXCEPT ![t] = q]
  /\ UNCHANGED <<bc, sse>>

\* the requests of one stream's delivery.  With two calls no TypeError is
\* raised (the cache is cleared only by a cancelled worker whose key is
\* current again, which takes three entries), so HandleTypeError has no step.
NextStream ==
  \/ \E t \in Observers, q \in Queries : Request(t, q)
  \/ \E t \in Observers : SetOldEvent(t)
  \/ \E t \in Observers : WakeUp(t)
  \/ \E t \in Observers : ReportUpTo(t, MaxStreamReports)
  \/ \E t \in Observers : FuncReturns(t)
  \/ \E t \in Observers : SetEvent(t)
  \/ \E t \in Observers : FuncRaises(t)
  \/ \E t \in Observers : SetOwnEvent(t)
  \/ \E t \in Observers : StreamProgress(t)
  \/ \E t \in Observers : ClientDisconnect(t)
  \/ \E t \in Observers : StreamTerminal(t)

\* ---- ProgressBroadcaster on its own, with callbacks that may raise ----

Range(s) == {s[i] : i \in 1..Len(s)}

\* list.remove(x): the list without the first occurrence of x
remove(s, x) ==
  LET i == CHOOSE i \in 1..Len(s) : s[i] = x /\ \A j \in 1..(i - 1) : s[j] # x
  IN SubSeq(s, 1, i - 1) \o SubSeq(s, i + 1, Len(s))

\* the loop of broadcast without its try/except: the first callback that
\* raises ends the loop and the exception leaves broadcast
RECURSIVE loop_NoTry(_, _, _, _)
loop_NoTry(copy, failing, pct, b) ==
  IF copy = <<>> THEN b
  ELSE LET callback == Head(copy)
           called == [b EXCEPT !.invoked = Append(@, [cb |-> callback, pct |-> pct])]
       IN IF callback \in failing
          THEN [called EXCEPT !.escaped = TRUE]
          ELSE loop_NoTry(Tail(copy), failing, pct, called)

\* the loop of broadcast over the copy of the list: call; on an exception
\* remove the callback from the list and go on
RECURSIVE loop(_, _, _, _)
loop(copy, failing, pct, b) ==
  IF copy = <<>> THEN b
  ELSE LET callback == Head(copy)
           called == [b EXCEPT !.invoked = Append(@, [cb |-> callback, pct |-> pct])]
       IN IF callback \in failing
          THEN loop(Tail(copy), failing, pct,
                    [called EXCEPT !.callbacks = remove(@, callback)])
          ELSE loop(Tail(copy), failing, pct, called)

\* broadcast without the try/except around the call
ProgressBroadcaster_broadcast_NoTry(b, failing, pct) ==
  loop_NoTry(b.callbacks, failing, pct,
             [b EXCEPT !.invoked = <<>>, !.escaped = FALSE,
                       !.failed = failing \cap Range(b.callbacks),
                       !.removed = @ \cup (failing \cap Range(b.callbacks))])

\* ProgressBroadcaster.broadcast(progress, message); the callbacks in
\* `failing` raise when called
ProgressBroadcaster_broadcast(b, failing, pct) ==
  loop(b.callbacks, failing, pct,
       [b EXCEPT !.invoked = <<>>, !.escaped = FALSE,
                 !.failed = failing \cap Range(b.callbacks),
                 !.removed = @ \cup (failing \cap Range(b.callbacks))])

\* ProgressBroadcaster.add_callback(callback)
ProgressBroadcaster_add_callback(b, callback) ==
  [b EXCEPT !.callbacks = Append(@, callback), !.added = @ \cup {callback}]

\* a call registers its own callback, once
AddCallback(l) ==
  /\ bc.lock = "free"
  /\ l \notin bc.added
  /\ bc' = ProgressBroadcaster_add_callback(bc, l)
  /\ UNCHANGED <<cacheVars, entryVars, pc, cache_key, waiting_for_entry,
                 old_event, exc, outcome, outval, reported, gwVars, histVars,
                 query, sse>>

\* the worker reports progress; any of the callbacks may raise
Broadcast(failing, pct) ==
  /\ bc.lock = "free"
  /\ bc' = ProgressBroadcaster_broadcast(bc, failing, pct)
  /\ UNCHANGED <<cacheVars, entryVars, pc, cache_key, waiting_for_entry,
                 old_event, exc, outcome, outval, reported, gwVars, histVars,
                 query, sse>>

NextBroadcast ==
  \/ \E l \in Listeners : AddCallback(l)
  \/ \E failing \in SUBSET Listeners, pct \in 1..MaxStreamReports :
       Broadcast(failing, pct)

\* ---- ProgressBroadcaster with callbacks that call back into it ----

\* the loop of broadcast, run with self.lock held, when the callbacks in
\* `reentrant` call add_callback of the same broadcaster: add_callback waits
\* for self.lock, a threading.Lock its own thread holds, and never returns,
\* so the loop stops inside that callback with the lock held
RECURSIVE loop_locked(_, _, _, _, _)
loop_locked(copy, failing, reentrant, pct, b) ==
  IF copy = <<>> THEN [b EXCEPT !.lock = "free"]
  ELSE LET callback == Head(copy)
           called == [b EXCEPT !.invoked = Append(@, [cb |-> callback, pct |-> pct])]
       IN IF callback \in reentrant
          THEN called
          ELSE IF callback \in failing
               THEN loop_locked(Tail(copy), failing, reentrant, pct,
                                [called EXCEPT !.callbacks = remove(@, callback)])
               ELSE loop_locked(Tail(copy), failing, reentrant, pct, called)

\* ProgressBroadcaster.broadcast with the lock: acquire, loop over the copy
ProgressBroadcaster_broadcast_locked(b, failing, reentrant, pct) ==
  loop_locked(b.callbacks, failing, reentrant, pct,
              [b EXCEPT !.lock = "held", !.invoked = <<>>, !.escaped = FALSE,
                        !.failed = failing \cap Range(b.callbacks),
                        !.removed = @ \cup (failing \cap Range(b.callbacks))])

\* a broadcast; the callbacks in `reentrant` call add_callback from inside
BroadcastReentrant(failing, reentrant, pct) ==
  /\ bc.lock = "free"
  /\ failing \cap reentrant = {}
  /\ bc' = ProgressBroadcaster_broadcast_locked(bc, failing, reentrant, pct)
  /\ UNCHANGED <<cacheVars, entryVars, pc, cache_key, waiting_for_entry,
                 old_event, exc, outcome, outval, reported, gwVars, histVars,
                 query, sse>>

NextReentrant ==
  \/ \E l \in Listeners : AddCallback(l)
  \/ \E failing \in SUBSET Listeners, reentrant \in SUBSET Listeners,
        pct \in 1..MaxStreamReports :
       BroadcastReentrant(failing, reentrant, pct)

\* ---- the frontend: SSEManager of sseUtils.js ----

\* String.prototype.includes on the path segments
includes(k, fragment) ==
  \E i \in 0..(Len(k) - Len(fragment)) :
    SubSeq(k, i + 1, i + Len(fragment)) = fragment

VisualizeFragment == <<"api", "visualize">>

\* closeEventSource(endpoint): close and null the registered EventSource
closeEventSource(m, endpoint) ==
  IF m.eventSourceByEndpoint[endpoint] # None
  THEN [m EXCEPT !.readyState[m.eventSourceByEndpoint[endpoint]] = "closed",
                 !.eventSourceByEndpoint[endpoint] = None]
  ELSE m

\* closeVisualizeEventSource(): Object.keys(...).find(...) is the first key,
\* in insertion order, that includes the fragment; a key stays in the object
\* when its value is set to null
closeVisualizeEventSource(m) ==
  LET found == {i \in 1..Len(m.keys) : includes(m.keys[i], VisualizeFragment)}
  IN IF found = {} THEN m
     ELSE closeEventSource(m, m.keys[CHOOSE i \in found : \A j \in found : i <= j])

\* closeAllEventSources(): forEach key, closeEventSource
RECURSIVE forEach_closeEventSource(_, _)
forEach_closeEventSource(keys, m) ==
  IF keys = <<>> THEN m
  ELSE forEach_closeEventSource(Tail(keys), closeEventSource(m, Head(keys)))

closeAllEventSources(m) == forEach_closeEventSource(m.keys, m)

\* startSSE(endpoint, ...): new EventSource(url), registered under endpoint
startSSE(m, endpoint, eventSource) ==
  [m EXCEPT !.keys = IF endpoint \in Range(@) THEN @ ELSE Append(@, endpoint),
            !.eventSourceByEndpoint[endpoint] = eventSource,
            !.url[eventSource] = endpoint,
            !.readyState[eventSource] = "open"]

\* the 'complete', 'cancelled' and 'error' listeners startSSE adds to an
\* EventSource: after the callback, this.closeEventSource(endpoint)
onTerminalEvent(m, eventSource) == closeEventSource(m, m.url[eventSource])

serverVars ==
  <<cacheVars, entryVars, pc, cache_key, waiting_for_entry, old_event, exc,
    outcome, outval, reported, gwVars, histVars, query, bc>>

StartSSE(endpoint) ==
  /\ \E eventSource \in EventSources :
       /\ sse.readyState[eventSource] = "none"
       /\ \A other \in EventSources :
            other < eventSource => sse.readyState[other] # "none"
       /\ sse' = [startSSE(sse, endpoint, eventSource)
                    EXCEPT !.op = "startSSE", !.target = eventSource]
  /\ UNCHANGED serverVars

CloseEventSource(endpoint) ==
  /\ sse' = [closeEventSource(sse, endpoint)
               EXCEPT !.op = "closeEventSource", !.target = None]
  /\ UNCHANGED serverVars

CloseVisualizeEventSource ==
  /\ sse' = [closeVisualizeEventSource(sse)
               EXCEPT !.op = "closeVisualizeEventSource", !.target = None]
  /\ UNCHANGED serverVars

CloseAllEventSources ==
  /\ sse' = [closeAllEventSources(sse)
               EXCEPT !.op = "closeAllEventSources", !.target = None]
  /\ UNCHANGED serverVars

\* the server's terminal event arrives at an open EventSource
TerminalEvent(eventSource) ==
  /\ sse.readyState[eventSource] = "open"
  /\ sse' = [onTerminalEvent(sse, eventSource)
               EXCEPT !.op = "terminal", !.target = eventSource]
  /\ UNCHANGED serverVars

NextFrontend ==
  \/ \E endpoint \in Endpoints : StartSSE(endpoint)
  \/ \E endpoint \in Endpoints : CloseEventSource(endpoint)
  \/ CloseVisualizeEventSource
  \/ CloseAllEventSources
  \/ \E eventSource \in EventSources : TerminalEvent(eventSource)

\* the cache with the SSE gateway
Spec == Init /\ [][Next]_vars
\* a ProgressBroadcaster, its callbacks and broadcasts
SpecBroadcast == Init /\ [][NextBroadcast]_vars
\* requests with their query parameters, the cache and the SSE gateway
SpecStream == Init /\ [][NextStream]_vars
\* the cache alone
SpecCache == Init /\ [][NextCache]_vars
\* the cache alone, more calls
SpecDeep == Init /\ [][NextDeep]_vars
\* a ProgressBroadcaster whose callbacks may call back into it
SpecReentrant == Init /\ [][NextReentrant]_vars
\* the SSEManager of the frontend
SpecFrontend == Init /\ [][NextFrontend]_vars

\* ------------------------------------------------------------------------
\* Properties
\* ------------------------------------------------------------------------

\* the worker (func) of call t is in flight
InFlight(t) == pc[t] = "running"

\* call t takes the first lock block of the wrapper in this step
SubmitStep(t) == pc[t] = "idle" /\ pc'[t] # "idle"

\* call t handles an exception of its try block in this step
FailureStep(t) ==
  \/ pc[t] \in {"running", "except"} /\ pc'[t] = "set_own"
  \/ pc[t] = "set_own" /\ pc'[t] = "done"

\* C1: for every key at most one worker execution is in flight at any time.
C1_Singleflight ==
  \A k \in Keys : Cardinality({t \in Slots : InFlight(t) /\ cache_key[t] = k}) <= 1

\* C2: once the entry of call t has been replaced by an entry with another
\* key, handling a failure of t's worker leaves that current entry as it
\* was: same entry, key, status, result, error, broadcaster and signals.
C2_NoCrossContamination ==
  [][\A t \in Slots :
       LET cur == current_cache_entry IN
       (/\ FailureStep(t)
        /\ t \in replaced
        /\ cur # None /\ cur # t
        /\ current_cache_key # cache_key[t])
       => /\ current_cache_entry' = cur
          /\ current_cache_key' = current_cache_key
          /\ status'[cur] = status[cur]
          /\ result'[cur] = result[cur]
          /\ error'[cur] = error[cur]
          /\ callbacks'[cur] = callbacks[cur]
          /\ (cur \in cancel_event') = (cur \in cancel_event)
          /\ (cur \in event') = (cur \in event)]_vars

\* C2 witness: the worker of a replaced entry has raised an error, its own
\* entry never took it, and a successor with another key is current and loading.
C2_Witness ==
  \E t \in Slots :
    /\ pc[t] = "done" /\ outcome[t] = "error" /\ outval[t] = t
    /\ t \in replaced /\ status[t] = "loading"
    /\ current_cache_entry # None /\ current_cache_entry # t
    /\ current_cache_key # cache_key[t]
    /\ status[current_cache_entry] = "loading"

\* C3: a call parked on the event of entry E that wakes up and finds the
\* current entry is not E raises the cancellation; it returns no result and
\* raises no error of another entry.
C3_ReplacedWaiterCancelled ==
  [][\A t \in Slots :
       (/\ pc[t] = "waiting" /\ pc'[t] = "done"
        /\ current_cache_entry # waiting_for_entry[t])
       => outcome'[t] = "cancelled"]_vars

\* C3 witness: a joined call ended cancelled while a later entry is complete.
C3_Witness ==
  \E t \in Slots :
    /\ waiting_for_entry[t] # None
    /\ pc[t] = "done" /\ outcome[t] = "cancelled"
    /\ current_cache_entry # None
    /\ current_cache_entry # waiting_for_entry[t]
    /\ status[current_cache_entry] = "complete"

\* C4: every call eventually returns or raises.  In the form a finite run
\* refutes: while a call is outstanding, some outstanding call can take a
\* step (workers always can), so no call is left parked with nobody to wake it.
C4_NoCallStuck ==
  (\E t \in Slots : pc[t] \notin {"idle", "done"}) => ENABLED CallStep(Slots)

IsTerminal(ev) == ev.type \in {"complete", "cancelled", "error"}
Terminals(s) == {i \in 1..Len(s) : IsTerminal(s[i])}

\* C5: every request's stream carries exactly one terminal record, as its
\* last record, whatever the outcome of the request (client disconnect too).
C5_ExactlyOneTerminal ==
  \A t \in Slots :
    /\ Cardinality(Terminals(stream[t])) <= 1
    /\ \A i \in Terminals(stream[t]) : i = Len(stream[t])
    /\ gw[t] = "closed" => Cardinality(Terminals(stream[t])) = 1

\* C6 (state part): the cancel event of the current entry is unset and the
\* cancel event of every replaced entry that is still loading is set.
C6_Inv ==
  /\ current_cache_entry # None => current_cache_entry \notin cancel_event
  /\ \A e \in replaced : status[e] = "loading" => e \in cancel_event

C7_Inv ==
  /\ (current_cache_key = None) = (current_cache_entry = None)
  /\ current_cache_entry # None
       => /\ cache_key[current_cache_entry] = current_cache_key
          /\ status[current_cache_entry] # "none"

\* C7: the cache holds zero or one entry; a call whose key differs replaces
\* the current entry by its own new loading entry, a call on an empty cache
\* installs its own, and a call with the current key installs nothing.
C7_AtMostOneEntry ==
  /\ []C7_Inv
  /\ [][\A t \in Slots :
          SubmitStep(t) =>
            IF current_cache_entry = None \/ current_cache_key # cache_key'[t]
            THEN /\ current_cache_entry' = t
                 /\ current_cache_entry' # current_cache_entry
                 /\ current_cache_key' = cache_key'[t]
                 /\ status'[t] = "loading"
            ELSE UNCHANGED <<current_cache_entry, current_cache_key>>]_vars

\* C7 witness: an entry was replaced by the entry that is now current.
C7_Witness ==
  /\ current_cache_entry # None
  /\ old_event[current_cache_entry] # None
  /\ old_event[current_cache_entry] \in replaced
  /\ cache_key[old_event[current_cache_entry]] # current_cache_key

\* C8: a call whose key is the key of the call before it (no call with a
\* different key in between) never starts a worker: it joins or it ends at once.
C8_SecondCallStartsNoWorker ==
  [][\A t \in Slots :
       (SubmitStep(t) /\ last_key = cache_key'[t])
       => pc'[t] \in {"waiting", "done"}]_vars

\* C9: a call made after an entry of its key was preempted never returns
\* the result of that preempted entry's worker.
C9_NoReplayOfPreempted ==
  \A t \in Slots : outcome[t] = "result" => outval[t] \notin stale[t]

\* C10: (a) an error of the current entry's worker makes the entry ERROR with
\* that error; (b) the entry stays ERROR with that error until a call with a
\* different key replaces it; (c) a call with its key raises that error at once
\* and starts no worker; (d) a joined call that wakes while the entry is
\* current raises that error.
C10_ErrorCached ==
  [][/\ \A t \in Slots :
          (pc[t] = "running" /\ pc'[t] = "set_own" /\ exc'[t] = t
             /\ current_cache_entry = t)
          => status'[t] = "error" /\ error'[t] = t
     /\ \A e \in Slots :
          (current_cache_entry = e /\ status[e] = "error")
          => \/ /\ current_cache_entry' = e
                /\ status'[e] = "error" /\ error'[e] = error[e]
             \/ \E t \in Slots : SubmitStep(t) /\ cache_key'[t] # current_cache_key
     /\ \A t \in Slots :
          (/\ SubmitStep(t) /\ current_cache_entry # None
           /\ cache_key'[t] = current_cache_key
           /\ status[current_cache_entry] = "error")
          => /\ pc'[t] = "done" /\ outcome'[t] = "error"
             /\ outval'[t] = error[current_cache_entry]
     /\ \A t \in Slots :
          (/\ pc[t] = "waiting" /\ pc'[t] = "done"
           /\ current_cache_entry = waiting_for_entry[t]
           /\ status[current_cache_entry] = "error")
          => outcome'[t] = "error" /\ outval'[t] = error[current_cache_entry]
    ]_vars
\* call t handles the cancellation (InterruptedError) of its worker in this step
CancellationStep(t) ==
  pc[t] = "running" /\ pc'[t] = "set_own" /\ exc'[t] = InterruptedError

\* C11: when a worker ends by cancellation the cache is cleared if its entry
\* is still the current entry and is left as it is otherwise, and the step
\* stores no status, result or error in any entry.
C11_ClearedIffCurrent ==
  [][\A t \in Slots :
       CancellationStep(t) =>
         /\ IF current_cache_entry = t
            THEN current_cache_entry' = None /\ current_cache_key' = None
            ELSE UNCHANGED <<current_cache_entry, current_cache_key>>
         /\ UNCHANGED <<status, result, error>>]_vars
\* the progress records of a sequence of SSE records
ProgressOf(s) == SelectSeq(s, LAMBDA ev : ev.type = "progress")

EntryOf(u) == IF waiting_for_entry[u] # None THEN waiting_for_entry[u] ELSE u

\* C13: the progress records on an observer's stream were all reported by
\* the worker of the observer's entry, appear in the order of the reports
\* (percents increasing), and all come before the terminal record.
C13_ProgressInOrder ==
  \A u \in Slots :
    LET s == stream[u] IN
    /\ \A i \in 1..Len(s) :
         s[i].type = "progress"
         => /\ s[i].src = EntryOf(u)
            /\ s[i].pct <= reported[EntryOf(u)]
            /\ \A j \in 1..Len(s) : IsTerminal(s[j]) => i < j
    /\ \A i, j \in 1..Len(s) :
         (i < j /\ s[i].type = "progress" /\ s[j].type = "progress")
         => s[i].pct < s[j].pct
\* C14: an observer that installed its entry (so it subscribed before the
\* first report), never disconnected, with no entry ever replaced, whose
\* stream ended with the complete record, has on its stream every progress
\* record its worker reported.
C14_AllProgressDelivered ==
  \A t \in Slots :
    (/\ gw[t] = "closed" /\ ~client_disconnected[t]
     /\ waiting_for_entry[t] = None /\ status[t] # "none"
     /\ replaced = {} /\ current_cache_entry = t
     /\ outcome[t] = "result")
    => Len(ProgressOf(stream[t])) = reported[t]
\* C15: the progress queue of an observer never holds more records than
\* its capacity.
C15_QueueBounded ==
  \A t \in Slots : Len(progress_queue[t]) <= progressQueueCapacity
\* C16: in a broadcast during which callbacks raise, every callback that
\* was registered at its start is called exactly once with the pair, the
\* callbacks that raised are removed and the others stay, no callback
\* removed earlier is called, and no exception leaves broadcast.
C16_ListenerIsolation ==
  [][(bc'.added = bc.added /\ bc' # bc) =>
       /\ \A l \in Range(bc.callbacks) :
            Cardinality({i \in 1..Len(bc'.invoked) : bc'.invoked[i].cb = l}) = 1
       /\ \A i \in 1..Len(bc'.invoked) :
            /\ bc'.invoked[i].cb \in Range(bc.callbacks)
            /\ bc'.invoked[i].cb \notin bc.removed
            /\ \A j \in 1..Len(bc'.invoked) :
                 bc'.invoked[j].pct = bc'.invoked[i].pct
       /\ Range(bc'.callbacks) = Range(bc.callbacks) \ bc'.failed
       /\ Len(bc'.callbacks) = Cardinality(Range(bc'.callbacks))
       /\ ~bc'.escaped]_vars

\* C16 witness: three callbacks were registered, the first one called
\* raised, the two others were called after it and stay registered.
C16_Witness ==
  /\ Len(bc.invoked) = 3
  /\ bc.failed = {bc.invoked[1].cb}
  /\ Len(bc.callbacks) = 2
  /\ Range(bc.callbacks) = {bc.invoked[2].cb, bc.invoked[3].cb}
  /\ ~bc.escaped
\* C17: an observer of an entry that was replaced while LOADING ends with
\* the cancelled record: the terminal record on its stream, once there, is
\* `cancelled` and nothing follows it.
C17_ReplacedObserversCancelled ==
  \A u \in Slots :
    (/\ pc[u] # "idle"
     /\ EntryOf(u) \in replaced /\ status[EntryOf(u)] = "loading")
    => \A i \in Terminals(stream[u]) :
         stream[u][i].type = "cancelled" /\ i = Len(stream[u])
\* call t installed an entry (and so runs its worker)
Installed(t) == status[t] # "none"

\* C18: of the calls with one key that arrive with no call of a different
\* key between them, only one installs an entry and runs a worker: two
\* installed entries of one key have a call of another key between them.
C18_OneInstallPerRace ==
  \A t, u \in Slots :
    (t < u /\ Installed(t) /\ Installed(u) /\ cache_key[t] = cache_key[u])
    => \E w \in Slots :
         t < w /\ w < u /\ pc[w] # "idle" /\ cache_key[w] # cache_key[t]
\* C19: at every point in time at most one worker is executing, whatever
\* the keys: the worker of a new entry does not run while the worker of the
\* entry it preempted is still running.
C19_OneWorkerAtATime ==
  Cardinality({t \in Slots : InFlight(t)}) <= 1
\* the query of request t names a prefix outside the parameter groups
UnknownPrefix(t) == ~(query[t].prefixes \subseteq Prefixes)

Tracked(eventSource) ==
  sse.eventSourceByEndpoint[sse.url[eventSource]] = eventSource

IsOpen(eventSource) == sse.readyState[eventSource] = "open"

\* C21: after closeVisualizeEventSource no EventSource of an
\* /api/visualize/... endpoint is open, whatever startSSE and close calls
\* came before (stated for the states where every open EventSource is the
\* registered one of its endpoint), and the call leaves the EventSources and
\* the registrations of the other endpoints as they were.
C21_CloseVisualizeClosesAll ==
  /\ [](sse.op = "closeVisualizeEventSource"
          /\ (\A eventSource \in EventSources :
                IsOpen(eventSource) => Tracked(eventSource))
        => \A eventSource \in EventSources :
             includes(sse.url[eventSource], VisualizeFragment)
               => ~IsOpen(eventSource))
  /\ [][sse'.op = "closeVisualizeEventSource"
          => /\ \A eventSource \in EventSources :
                  ~includes(sse.url[eventSource], VisualizeFragment)
                    => sse'.readyState[eventSource] = sse.readyState[eventSource]
             /\ \A endpoint \in Endpoints :
                  ~includes(endpoint, VisualizeFragment)
                    => sse'.eventSourceByEndpoint[endpoint]
                         = sse.eventSourceByEndpoint[endpoint]]_vars

\* C29: a handler of an EventSource closes only that EventSource: the
\* terminal event of one EventSource leaves every other EventSource and the
\* registrations of the others as they were, and no EventSource is open
\* without being the registered one of its endpoint.
C29_HandlerClosesOnlyItsOwn ==
  /\ [](\A eventSource \in EventSources :
          IsOpen(eventSource) => Tracked(eventSource))
  /\ [][sse'.op = "terminal"
          => /\ \A other \in EventSources \ {sse'.target} :
                  sse'.readyState[other] = sse.readyState[other]
             /\ \A endpoint \in Endpoints :
                  sse.eventSourceByEndpoint[endpoint] # sse'.target
                    => sse'.eventSourceByEndpoint[endpoint]
                         = sse.eventSourceByEndpoint[endpoint]]_vars

\* ---- the broadcaster's lock ----

\* C25: broadcast holds no lock of the broadcaster while a listener runs, so
\* a listener that calls add_callback of the same broadcaster from inside
\* its callback does not block: every broadcast returns and leaves the lock
\* free.
C25_BroadcastReturns == bc.lock = "free"

\* ---- the worker's completion and its reports ----

\* a step of the thread that runs func for entry t, after func has ended
\* or while it ends
WorkerStep(t) ==
  /\ pc[t] \in {"running", "set_event", "except", "set_own"}
  /\ pc'[t] # pc[t]

\* C22: a worker that finishes after its entry has been replaced changes
\* nothing in the cache, however it finishes and whatever the key of the
\* current entry: the current key and entry stay, and no other entry's
\* status, result, error or done signal changes.
C22_ReplacedWorkerChangesNothing ==
  [][\A t \in Slots :
       WorkerStep(t) /\ t \in replaced
         => /\ UNCHANGED <<current_cache_key, current_cache_entry>>
            /\ \A e \in Slots \ {t} :
                 /\ status'[e] = status[e]
                 /\ result'[e] = result[e]
                 /\ error'[e] = error[e]
                 /\ (e \in event') = (e \in event)]_vars

\* C23: the progress a worker reports is broadcast only on the broadcaster
\* of the entry the worker was dispatched for: a report of worker t reaches
\* no callback outside callbacks[t].
C23_ProgressOnOwnBroadcaster ==
  [][\A t \in Slots :
       reported'[t] # reported[t]
         => \A u \in Slots :
              progress_queue'[u] # progress_queue[u] => u \in callbacks[t]]_vars

\* the step of call t is one `with _cache_lock:` block: the first block of
\* the wrapper, the check after event.wait(), the blocks around the write
\* of the outcome, or broadcast_progress_wrapper
HoldsCacheLock(t) ==
  \/ pc[t] = "idle" /\ pc'[t] # "idle"
  \/ pc[t] = "waiting" /\ pc'[t] = "done"
  \/ pc[t] = "running" /\ pc'[t] \in {"set_event", "except"}
  \/ pc[t] = "except" /\ pc'[t] = "set_own"
  \/ reported'[t] # reported[t]

\* a progress callback has run in the step: a record was put on a queue
CallbackInvoked ==
  \E u \in Slots : Len(progress_queue'[u]) > Len(progress_queue[u])

\* C24: the cache invokes no user code while it holds its mutex: no
\* progress callback runs inside a `with _cache_lock:` block, neither the
\* courtesy progress of a hit on a complete entry nor a broadcast made
\* through the worker's report function.
C24_NoUserCodeUnderLock ==
  [][\A t \in Slots : HoldsCacheLock(t) => ~CallbackInvoked]_vars

\* C28: an entry's status moves only from loading to complete or to error,
\* once, and in a step of that entry's own worker thread; while loading the
\* result and the error are null, a result is there only in complete and an
\* error only in error.
C28_StatusMachine ==
  /\ [](\A e \in Slots :
          /\ status[e] = "loading" => result[e] = None /\ error[e] = None
          /\ result[e] # None => status[e] = "complete"
          /\ error[e] # None => status[e] = "error")
  /\ [][\A e \in Slots :
          status'[e] # status[e] /\ status[e] # "none"
            => /\ status[e] = "loading"
               /\ status'[e] \in {"complete", "error"}
               /\ WorkerStep(e)]_vars

\* ---- the done signal ----

\* the preempting call t fires the done signal of the entry it replaced
FiredByPreemptor(t, e) ==
  pc[t] = "set_old" /\ pc'[t] = "running" /\ old_event[t] = e

\* a worker thread t fires the done signal of entry e
FiredByWorker(t, e) ==
  \/ pc[t] = "set_own" /\ pc'[t] = "done" /\ e = t
  \/ pc[t] = "set_event" /\ pc'[t] = "done" /\ e = current_cache_entry

\* entry e was installed and is not the current entry any more
Removed(e) == Installed(e) /\ current_cache_entry # e

C27_FireAfterInstall ==
  [][/\ \A t, e \in Slots :
          FiredByPreemptor(t, e)
            => /\ Installed(t)
               /\ e \in replaced /\ current_cache_entry # e
               /\ event' = event \cup {e}
               /\ UNCHANGED <<cacheVars, status, result, error>>
     /\ \A u \in Slots :
          (/\ pc[u] = "waiting" /\ pc'[u] = "done"
           /\ waiting_for_entry[u] \in replaced)
          => outcome'[u] = "cancelled" /\ outval'[u] = None]_vars

\* C27 witness: a waiter of a replaced entry was woken by the preempting
\* call's fire (the entry's own worker is still running) and ended cancelled.
C27_Witness ==
  \E u, e, t \in Slots :
    /\ waiting_for_entry[u] = e /\ pc[u] = "done" /\ outcome[u] = "cancelled"
    /\ pc[e] = "running"
    /\ old_event[t] = e /\ pc[t] \notin {"idle", "set_old"}

\* ---- subscription to a loading entry ----

\* the progress records a connected observer's callback has been called with
Received(u) == ProgressOf(stream[u]) \o progress_queue[u]

IsSuffix(a, b) ==
  Len(a) <= Len(b) /\ SubSeq(b, Len(b) - Len(a) + 1, Len(b)) = a

\* C30: a call that joins a loading entry has its callback on the entry's
\* broadcaster when the join returns and is given nothing that was broadcast
\* before; every broadcast after that reaches all connected callbacks of
\* the entry alike, so of two connected observers of one entry the later
\* one has received the tail of what the earlier one has received.
C30_JoinedFromSubscription ==
  /\ [](\A e, u, v \in Slots :
          (/\ u \in callbacks[e] /\ v \in callbacks[e]
           /\ ~client_disconnected[u] /\ ~client_disconnected[v])
          => IsSuffix(Received(u), Received(v))
               \/ IsSuffix(Received(v), Received(u)))
  /\ [][/\ \A t \in Slots :
             (SubmitStep(t) /\ pc'[t] = "waiting")
               => /\ t \in callbacks'[waiting_for_entry'[t]]
                  /\ Received(t) = <<>>
                  /\ progress_queue'[t] = progress_queue[t]
        /\ \A e, u, v \in Slots :
             (/\ u \in callbacks[e] /\ v \in callbacks[e]
              /\ ~client_disconnected[v]
              /\ Len(progress_queue'[u]) > Len(progress_queue[u]))
             => progress_queue'[v]
                  = Append(progress_queue[v],
                           progress_queue'[u][Len(progress_queue'[u])])]_vars

\* C30 witness: observer 2 joined entry 1 after its first report and before
\* its second: observer 1 has received both and observer 2 the second only.
C30_Witness ==
  /\ waiting_for_entry[2] = 1 /\ current_cache_entry = 1
  /\ ~client_disconnected[1] /\ ~client_disconnected[2]
  /\ Received(1) = <<Event("progress", 1, 1), Event("progress", 1, 2)>>
  /\ Received(2) = <<Event("progress", 1, 2)>>
====
